---- MODULE Spec2Model ----
(***************************************************************************)
(* Model of exports.handler in src/index.js: one run of the Lambda locks   *)
(* the INBOX, fetches every message, uploads the embedded original and its *)
(* attachments to S3, calls sp_save_inbound_email, and finally flags,      *)
(* moves and deletes the UIDs collected in `seen`.  Several runs work on   *)
(* the same mailbox; every collaborator call may fail.                     *)
(***************************************************************************)
EXTENDS Integers, Sequences, FiniteSets, TLC

\* ---- bounds ----
NumRuns == 2
MaxMsgs == 2
MaxAtt == 2
MaxTicks == 1

Runs == 1..NumRuns
\* the last value Date.now() takes: the clock runs over a change in the number
\* of digits
ClockEnd == 9 + 1
\* the first value Date.now() takes
ClockStart == ClockEnd - MaxTicks
\* local part of the recipient of message u: most messages go to one address
Recipient(u) == IF u % 3 = 0 THEN "bob" ELSE "alice"
\* original filename of attachment i (from 1) of message u, as its
\* dot-separated parts: attachments share a name, every third has no extension
OriginalName(u, i) == IF i % 3 = 0 THEN <<"notes">> ELSE <<"scan", "pdf">>
UIDs == 1..MaxMsgs
NoRun == 0
NoUid == 0
NoResponse == [statusCode |-> 0, body |-> "none"]

VARIABLES
  inbox,       \* UIDs currently in INBOX
  trash,       \* UIDs moved to Trash
  flagged,     \* UIDs carrying \Seen
  delivered,   \* UIDs that have ever been delivered
  clock,       \* the value Date.now() returns
  natt,        \* UID in INBOX -> number of attachments of the embedded original
  lockHolder,  \* run holding the INBOX lock, or NoRun
  pc,          \* run -> position in handler
  exc,         \* run -> an exception is propagating out of the try block
  result,      \* run -> value of the local `result`
  outcome,     \* run -> "running" | "returned" | "threw"
  response,    \* run -> value returned by handler, or NoResponse
  todo,        \* run -> messages the fetch generator has still to yield
  msg,         \* run -> UID of the message of the current iteration
  seen,        \* run -> the array `seen`, as a set
  uploads,     \* run -> sequence of attachment upload promises
  con,         \* run -> state of the MySQL connection
  imap,        \* run -> state of the ImapFlow client
  releases,    \* run -> number of lock.release() calls
  acquired,    \* run -> getMailboxLock resolved
  fetched,     \* run -> client.fetch was issued
  puts,        \* run -> number of s3.putObject calls issued
  saveCalls,   \* run -> UID -> number of sp_save_inbound_email calls
  savedOk,     \* run -> UIDs whose sp_save_inbound_email call succeeded
  assetsOk,    \* run -> UIDs whose .eml and attachment uploads all succeeded
  saveCount,   \* UID -> number of successful sp_save_inbound_email calls, all runs
  calls,       \* run -> sequence of the mailbox mutations issued: [op, uids]
  conOpens,    \* run -> number of connect(con) calls
  folder,      \* run -> `folder` of the current message
  names,       \* run -> filenames generated for the attachments of the current message
  attKeys,     \* run -> keys of the attachment blobs put so far in the run
  overwrites,  \* run -> an attachment put used a key already put in the run
  key,         \* run -> the variable `key` of the current message
  putKeys,     \* run -> Key passed to s3.putObject for each attachment of the current message
  emlKey,      \* run -> Key passed to s3.putObject for the .eml of the current message
  failedAt     \* run -> the stage that last failed or cut the run short, or "none"

vars == <<clock, inbox, trash, flagged, delivered, natt, lockHolder, pc, exc, result,
          outcome, response, todo, msg, seen, uploads, con, imap, releases,
          acquired, fetched, puts, saveCalls, savedOk, assetsOk, saveCount,
          calls, failedAt, conOpens, folder, names, attKeys, overwrites, key,
          putKeys, emlKey>>

mailboxVars == <<clock, inbox, trash, flagged, delivered, natt>>
storeVars == <<puts, saveCalls, savedOk, assetsOk, saveCount>>
loopVars == <<todo, msg, seen, uploads>>
keyVars == <<key, putKeys, emlKey>>

\* ---- the literal result objects of handler ----
ResultInitial == "{failed:true}"
ResultSuccess == "{success:true}"
ResultDbError == "{success:false,error:'Could not connect to MySQL database'}"
ResultNoMessages == "{success:false,error:'No messages in INBOX'}"
ResultSaved == "<sp_save_inbound_email result>"

\* the `success` field of a result object
SuccessField(res) ==
  IF res = ResultSuccess THEN "true"
  ELSE IF res \in {ResultDbError, ResultNoMessages} THEN "false"
  ELSE "absent"

\* the `error` field of a result object
ErrorField(res) ==
  IF res = ResultDbError THEN "Could not connect to MySQL database"
  ELSE IF res = ResultNoMessages THEN "No messages in INBOX"
  ELSE "absent"

\* the `processedCount` field of a result object: no literal of handler has one
CountField(res) == "absent"

\* lines 50-52: the part after the last dot, or undefined without a dot
getFileExtension(filename) ==
  IF Len(filename) > 1 THEN filename[Len(filename)] ELSE "undefined"

\* the number of decimal digits of i.toString()
Digits(i) == IF i < 10 THEN 1 ELSE IF i < 100 THEN 2 ELSE 3

\* the decimal string a followed by the decimal string b, as a number
Concat(a, b) ==
  a * (IF Digits(b) = 1 THEN 10 ELSE IF Digits(b) = 2 THEN 100 ELSE 1000) + b

\* the filename without the index of the attachment
FileNameNoIndex(now, i, a) == [stem |-> now, ext |-> getFileExtension(a)]

\* line 218: Date.now().toString() + i + '.' + getFileExtension(a.filename)
FileName(now, i, a) == [stem |-> Concat(now, i), ext |-> getFileExtension(a)]

\* line 172: the .eml filename, from the message id of the original
EmlName(u) == [stem |-> u, ext |-> "eml"]

\* lines 173 and 220: the key folder/filename
Key(f, filename) == <<f, filename>>

RECURSIVE Ascending(_)
\* the messages of a mailbox in sequence-number order
Ascending(S) ==
  IF S = {} THEN <<>>
  ELSE LET m == CHOOSE x \in S : \A y \in S : x <= y
       IN <<m>> \o Ascending(S \ {m})

Init ==
  /\ \E k \in 0..MaxMsgs : inbox = 1..k
  /\ clock = ClockStart
  /\ trash = {}
  /\ flagged = {}
  /\ delivered = inbox
  /\ natt \in [UIDs -> 0..MaxAtt]
  /\ \A u \in UIDs \ inbox : natt[u] = 0
  /\ lockHolder = NoRun
  /\ pc = [r \in Runs |-> "getImapConfig"]
  /\ exc = [r \in Runs |-> FALSE]
  /\ result = [r \in Runs |-> ResultInitial]
  /\ outcome = [r \in Runs |-> "running"]
  /\ response = [r \in Runs |-> NoResponse]
  /\ todo = [r \in Runs |-> <<>>]
  /\ msg = [r \in Runs |-> NoUid]
  /\ seen = [r \in Runs |-> {}]
  /\ uploads = [r \in Runs |-> <<>>]
  /\ con = [r \in Runs |-> "none"]
  /\ imap = [r \in Runs |-> "none"]
  /\ releases = [r \in Runs |-> 0]
  /\ acquired = [r \in Runs |-> FALSE]
  /\ fetched = [r \in Runs |-> FALSE]
  /\ puts = [r \in Runs |-> 0]
  /\ saveCalls = [r \in Runs |-> [u \in UIDs |-> 0]]
  /\ savedOk = [r \in Runs |-> {}]
  /\ assetsOk = [r \in Runs |-> {}]
  /\ saveCount = [u \in UIDs |-> 0]
  /\ calls = [r \in Runs |-> <<>>]
  /\ failedAt = [r \in Runs |-> "none"]
  /\ overwrites = [r \in Runs |-> FALSE]
  /\ key = [r \in Runs |-> <<>>]
  /\ putKeys = [r \in Runs |-> <<>>]
  /\ emlKey = [r \in Runs |-> <<>>]
  /\ attKeys = [r \in Runs |-> {}]
  /\ names = [r \in Runs |-> <<>>]
  /\ folder = [r \in Runs |-> <<>>]
  /\ conOpens = [r \in Runs |-> 0]

\* a new message arrives in the INBOX (mail delivery does not take the lock)
Deliver(u) ==
  /\ u \notin delivered
  /\ \A v \in UIDs : v < u => v \in delivered
  /\ \E n \in 0..MaxAtt : natt' = [natt EXCEPT ![u] = n]
  /\ inbox' = inbox \cup {u}
  /\ delivered' = delivered \cup {u}
  /\ UNCHANGED <<clock, trash, flagged, lockHolder, pc, exc, result, outcome,
                 response, con, imap, releases, acquired, fetched, failedAt>>
  /\ UNCHANGED <<loopVars, storeVars, calls>>
  /\ UNCHANGED <<conOpens, folder, names, attKeys, overwrites>>
  /\ UNCHANGED keyVars

\* an exception leaves handler before the try block: the promise rejects
Reject(r, stage) ==
  /\ pc' = [pc EXCEPT ![r] = "done"]
  /\ outcome' = [outcome EXCEPT ![r] = "threw"]
  /\ failedAt' = [failedAt EXCEPT ![r] = stage]

\* an exception inside the try block: control passes to the finally clause
Throw(r, stage) ==
  /\ pc' = [pc EXCEPT ![r] = "finally"]
  /\ exc' = [exc EXCEPT ![r] = TRUE]
  /\ failedAt' = [failedAt EXCEPT ![r] = stage]

\* line 111: getImapConfig reads the mail credentials from the parameter store
GetImapConfig(r) ==
  /\ pc[r] = "getImapConfig"
  /\ \/ /\ pc' = [pc EXCEPT ![r] = "connect"]
        /\ UNCHANGED <<outcome, failedAt>>
     \/ Reject(r, "imapConfig")
  /\ UNCHANGED <<mailboxVars, lockHolder, exc, result, response, con, imap,
                 releases, acquired, fetched>>
  /\ UNCHANGED <<loopVars, storeVars, calls>>
  /\ UNCHANGED conOpens
  /\ UNCHANGED <<folder, names, attKeys, overwrites>>
  /\ UNCHANGED keyVars

\* line 120: client.connect()
ImapConnect(r) ==
  /\ pc[r] = "connect"
  /\ \/ /\ pc' = [pc EXCEPT ![r] = "getMailboxLock"]
        /\ imap' = [imap EXCEPT ![r] = "connected"]
        /\ UNCHANGED <<outcome, failedAt>>
     \/ /\ Reject(r, "imapConnect")
        /\ UNCHANGED imap
  /\ UNCHANGED <<mailboxVars, lockHolder, exc, result, response, con,
                 releases, acquired, fetched>>
  /\ UNCHANGED <<loopVars, storeVars, calls>>
  /\ UNCHANGED conOpens
  /\ UNCHANGED <<folder, names, attKeys, overwrites>>
  /\ UNCHANGED keyVars

\* line 129: client.getMailboxLock('INBOX'), outside the try block
GetMailboxLock(r) ==
  /\ pc[r] = "getMailboxLock"
  /\ \/ /\ lockHolder = NoRun
        /\ lockHolder' = r
        /\ acquired' = [acquired EXCEPT ![r] = TRUE]
        /\ pc' = [pc EXCEPT ![r] = "status"]
        /\ UNCHANGED <<outcome, failedAt>>
     \/ /\ Reject(r, "lock")
        /\ UNCHANGED <<lockHolder, acquired>>
  /\ UNCHANGED <<mailboxVars, exc, result, response, con, imap, releases, fetched>>
  /\ UNCHANGED <<loopVars, storeVars, calls>>
  /\ UNCHANGED conOpens
  /\ UNCHANGED <<folder, names, attKeys, overwrites>>
  /\ UNCHANGED keyVars

\* the test written as status.messages >= 0: an empty mailbox is processed too
StatusNoEmptyCheck(r) ==
  /\ pc[r] = "status"
  /\ \/ /\ pc' = [pc EXCEPT ![r] = "getMySqlConnection"]
        /\ failedAt' = [failedAt EXCEPT ![r] =
                          IF Cardinality(inbox) = 0 THEN "noMessages" ELSE @]
        /\ UNCHANGED <<exc, result>>
     \/ /\ Throw(r, "status")
        /\ UNCHANGED result
  /\ UNCHANGED <<mailboxVars, lockHolder, outcome, response, con, imap,
                 releases, acquired, fetched>>
  /\ UNCHANGED <<loopVars, storeVars, calls>>
  /\ UNCHANGED conOpens
  /\ UNCHANGED <<folder, names, attKeys, overwrites>>
  /\ UNCHANGED keyVars

\* lines 134-135 and 264-267: client.status and the test of status.messages
Status(r) ==
  /\ pc[r] = "status"
  /\ \/ /\ Cardinality(inbox) > 0
        /\ pc' = [pc EXCEPT ![r] = "getMySqlConnection"]
        /\ UNCHANGED <<exc, result, failedAt>>
     \/ /\ Cardinality(inbox) = 0
        /\ result' = [result EXCEPT ![r] = ResultNoMessages]
        /\ pc' = [pc EXCEPT ![r] = "finally"]
        /\ failedAt' = [failedAt EXCEPT ![r] = "noMessages"]
        /\ UNCHANGED exc
     \/ /\ Throw(r, "status")
        /\ UNCHANGED result
  /\ UNCHANGED <<mailboxVars, lockHolder, outcome, response, con, imap,
                 releases, acquired, fetched>>
  /\ UNCHANGED <<loopVars, storeVars, calls>>
  /\ UNCHANGED conOpens
  /\ UNCHANGED <<folder, names, attKeys, overwrites>>
  /\ UNCHANGED keyVars

\* line 138: getMySqlConnection reads four parameters and creates the connection
GetMySqlConnection(r) ==
  /\ pc[r] = "getMySqlConnection"
  /\ \/ /\ con' = [con EXCEPT ![r] = "created"]
        /\ pc' = [pc EXCEPT ![r] = "dbConnect"]
        /\ UNCHANGED <<exc, failedAt>>
     \/ /\ Throw(r, "dbConfig")
        /\ UNCHANGED con
  /\ UNCHANGED <<mailboxVars, lockHolder, result, outcome, response, imap,
                 releases, acquired, fetched>>
  /\ UNCHANGED <<loopVars, storeVars, calls>>
  /\ UNCHANGED conOpens
  /\ UNCHANGED <<folder, names, attKeys, overwrites>>
  /\ UNCHANGED keyVars

\* the test of `connected` missing: a rejected connect still enters the loop
DbConnectUnchecked(r) ==
  /\ pc[r] = "dbConnect"
  /\ conOpens' = [conOpens EXCEPT ![r] = @ + 1]
  /\ \/ /\ con' = [con EXCEPT ![r] = "connected"]
        /\ UNCHANGED failedAt
     \/ /\ failedAt' = [failedAt EXCEPT ![r] = "dbConnect"]
        /\ UNCHANGED con
  /\ pc' = [pc EXCEPT ![r] = "bucket"]
  /\ UNCHANGED <<mailboxVars, lockHolder, exc, result, outcome, response, imap,
                 releases, acquired, fetched>>
  /\ UNCHANGED <<loopVars, storeVars, calls>>
  /\ UNCHANGED <<folder, names, attKeys, overwrites>>
  /\ UNCHANGED keyVars

\* lines 139-143 and 260-263: connect(con); a rejection is logged and leaves
\* `connected` undefined
DbConnect(r) ==
  /\ pc[r] = "dbConnect"
  /\ conOpens' = [conOpens EXCEPT ![r] = @ + 1]
  /\ \/ /\ con' = [con EXCEPT ![r] = "connected"]
        /\ pc' = [pc EXCEPT ![r] = "bucket"]
        /\ UNCHANGED <<result, failedAt>>
     \/ /\ result' = [result EXCEPT ![r] = ResultDbError]
        /\ pc' = [pc EXCEPT ![r] = "finally"]
        /\ failedAt' = [failedAt EXCEPT ![r] = "dbConnect"]
        /\ UNCHANGED con
  /\ UNCHANGED <<mailboxVars, lockHolder, exc, outcome, response, imap,
                 releases, acquired, fetched>>
  /\ UNCHANGED <<loopVars, storeVars, calls>>
  /\ UNCHANGED <<folder, names, attKeys, overwrites>>
  /\ UNCHANGED keyVars

\* lines 151-157: process.env.EMAIL_BUCKET must be set; seen = []
CheckBucket(r) ==
  /\ pc[r] = "bucket"
  /\ \E bucketSet \in BOOLEAN :
       IF bucketSet
       THEN /\ pc' = [pc EXCEPT ![r] = "fetch"]
            /\ seen' = [seen EXCEPT ![r] = {}]
            /\ UNCHANGED <<exc, failedAt>>
       ELSE /\ Throw(r, "bucket")
            /\ UNCHANGED seen
  /\ UNCHANGED <<mailboxVars, lockHolder, result, outcome, response, con, imap,
                 releases, acquired, fetched, todo, msg, uploads>>
  /\ UNCHANGED <<storeVars, calls>>
  /\ UNCHANGED conOpens
  /\ UNCHANGED <<folder, names, attKeys, overwrites>>
  /\ UNCHANGED keyVars

\* line 161: the first request of the for-await loop issues FETCH 1:*
FetchStart(r) ==
  /\ pc[r] = "fetch"
  /\ fetched' = [fetched EXCEPT ![r] = TRUE]
  /\ \/ /\ todo' = [todo EXCEPT ![r] = Ascending(inbox)]
        /\ pc' = [pc EXCEPT ![r] = "next"]
        /\ UNCHANGED <<exc, failedAt>>
     \/ /\ Throw(r, "fetch")
        /\ UNCHANGED todo
  /\ UNCHANGED <<mailboxVars, lockHolder, result, outcome, response, con, imap,
                 releases, acquired, msg, seen, uploads>>
  /\ UNCHANGED <<storeVars, calls>>
  /\ UNCHANGED conOpens
  /\ UNCHANGED <<folder, names, attKeys, overwrites>>
  /\ UNCHANGED keyVars

\* lines 161 and 242: the generator yields the next message or finishes
FetchNext(r) ==
  /\ pc[r] = "next"
  /\ IF todo[r] = <<>>
     THEN /\ pc' = [pc EXCEPT ![r] = "finalize"]
          /\ UNCHANGED <<todo, msg>>
     ELSE /\ msg' = [msg EXCEPT ![r] = Head(todo[r])]
          /\ todo' = [todo EXCEPT ![r] = Tail(todo[r])]
          /\ pc' = [pc EXCEPT ![r] = "parseOuter"]
  /\ UNCHANGED <<mailboxVars, lockHolder, exc, result, outcome, response, con,
                 imap, releases, acquired, fetched, seen, uploads, failedAt>>
  /\ UNCHANGED <<storeVars, calls>>
  /\ UNCHANGED conOpens
  /\ UNCHANGED <<folder, names, attKeys, overwrites>>
  /\ UNCHANGED keyVars

\* line 163: mail = await simpleParser(message.source)
ParseOuter(r) ==
  /\ pc[r] = "parseOuter"
  /\ \/ /\ pc' = [pc EXCEPT ![r] = "parseInner"]
        /\ UNCHANGED <<exc, failedAt>>
     \/ Throw(r, "parse")
  /\ UNCHANGED <<mailboxVars, lockHolder, result, outcome, response, con, imap,
                 releases, acquired, fetched>>
  /\ UNCHANGED <<loopVars, storeVars, calls>>
  /\ UNCHANGED conOpens
  /\ UNCHANGED <<folder, names, attKeys, overwrites>>
  /\ UNCHANGED keyVars

\* lines 165-170: original = await simpleParser(mail.attachments[0].content),
\* then the test of seen.includes(message.uid)
ParseInner(r) ==
  /\ pc[r] = "parseInner"
  /\ \/ /\ pc' = [pc EXCEPT ![r] = IF msg[r] \notin seen[r] THEN "putEml" ELSE "next"]
        /\ UNCHANGED <<exc, failedAt>>
     \/ Throw(r, "parse")
  /\ UNCHANGED <<mailboxVars, lockHolder, result, outcome, response, con, imap,
                 releases, acquired, fetched>>
  /\ UNCHANGED <<loopVars, storeVars, calls>>
  /\ UNCHANGED conOpens
  /\ UNCHANGED <<folder, names, attKeys, overwrites>>
  /\ UNCHANGED keyVars

\* lines 171-181: folder, eml and key are derived from the original, then the
\* .eml is uploaded with putS3File and awaited
PutEml(r) ==
  /\ pc[r] = "putEml"
  /\ \/ /\ folder' = [folder EXCEPT ![r] = <<"inbound", Recipient(msg[r])>>]
        /\ uploads' = [uploads EXCEPT ![r] = <<>>]
        /\ names' = [names EXCEPT ![r] = <<>>]
        /\ puts' = [puts EXCEPT ![r] = @ + 1]
        /\ key' = [key EXCEPT ![r] = Key(folder'[r], EmlName(msg[r]))]
        /\ putKeys' = [putKeys EXCEPT ![r] = <<>>]
        /\ emlKey' = [emlKey EXCEPT ![r] = key'[r]]
        /\ \/ /\ pc' = [pc EXCEPT ![r] = "fanOut"]
              /\ UNCHANGED <<exc, failedAt>>
           \/ Throw(r, "upload")
     \/ /\ Throw(r, "malformed")   \* original.to or original.messageId is missing
        /\ UNCHANGED <<puts, folder, uploads, names>>
        /\ UNCHANGED keyVars
  /\ UNCHANGED <<mailboxVars, lockHolder, result, outcome, response, con, imap,
                 releases, acquired, fetched, saveCalls, savedOk, assetsOk,
                 saveCount, calls>>
  /\ UNCHANGED <<todo, msg, seen>>
  /\ UNCHANGED <<conOpens, attKeys, overwrites>>

\* the upload of a callback started before the callback has assigned `key`
FanOutPutBeforeKey(r) ==
  /\ pc[r] = "fanOut"
  /\ LET n == natt[msg[r]]
         i == Len(names[r]) + 1
         filename == FileName(clock, i - 1, OriginalName(msg[r], i))
     IN IF n = 0
        THEN /\ pc' = [pc EXCEPT ![r] = "join"]
             /\ UNCHANGED <<uploads, names, puts, attKeys, overwrites, key, putKeys>>
        ELSE /\ uploads' = [uploads EXCEPT ![r] = Append(@, "inflight")]
             /\ names' = [names EXCEPT ![r] = Append(@, filename)]
             /\ putKeys' = [putKeys EXCEPT ![r] = Append(@, key[r])]
             /\ key' = [key EXCEPT ![r] = Key(folder[r], filename)]
             /\ puts' = [puts EXCEPT ![r] = @ + 1]
             /\ attKeys' = [attKeys EXCEPT ![r] = @ \cup {key[r]}]
             /\ overwrites' = [overwrites EXCEPT ![r] = @ \/ key[r] \in attKeys[r]]
             /\ pc' = [pc EXCEPT ![r] = IF i = n THEN "join" ELSE "fanOut"]
  /\ UNCHANGED <<mailboxVars, lockHolder, exc, result, outcome, response, con,
                 imap, releases, acquired, fetched, todo, msg, seen, saveCalls,
                 savedOk, assetsOk, saveCount, calls, failedAt>>
  /\ UNCHANGED <<conOpens, folder, emlKey>>

\* lines 216-222: original.attachments.map runs its callbacks one after the
\* other in the same turn; each reads Date.now(), builds its filename and key
\* and calls s3.putObject before it suspends. One step is one callback; after
\* the last, the handler awaits Promise.all
FanOut(r) ==
  /\ pc[r] = "fanOut"
  /\ LET n == natt[msg[r]]
         i == Len(names[r]) + 1
         filename == FileName(clock, i - 1, OriginalName(msg[r], i))
     IN IF n = 0
        THEN /\ pc' = [pc EXCEPT ![r] = "join"]
             /\ UNCHANGED <<uploads, names, puts, attKeys, overwrites, key, putKeys>>
        ELSE /\ uploads' = [uploads EXCEPT ![r] = Append(@, "inflight")]
             /\ names' = [names EXCEPT ![r] = Append(@, filename)]
             /\ key' = [key EXCEPT ![r] = Key(folder[r], filename)]
             /\ putKeys' = [putKeys EXCEPT ![r] = Append(@, key'[r])]
             /\ puts' = [puts EXCEPT ![r] = @ + 1]
             /\ attKeys' = [attKeys EXCEPT ![r] = @ \cup {key'[r]}]
             /\ overwrites' = [overwrites EXCEPT ![r] = @ \/ key'[r] \in attKeys[r]]
             /\ pc' = [pc EXCEPT ![r] = IF i = n THEN "join" ELSE "fanOut"]
  /\ UNCHANGED <<mailboxVars, lockHolder, exc, result, outcome, response, con,
                 imap, releases, acquired, fetched, todo, msg, seen, saveCalls,
                 savedOk, assetsOk, saveCount, calls, failedAt>>
  /\ UNCHANGED <<conOpens, folder, emlKey>>

\* lines 341-344: the putObject callback of attachment i settles its promise;
\* it cannot run in the middle of the turn that starts the uploads
UploadDone(r, i) ==
  /\ pc[r] # "fanOut"
  /\ i \in DOMAIN uploads[r]
  /\ uploads[r][i] = "inflight"
  /\ \E res \in {"ok", "err"} : uploads' = [uploads EXCEPT ![r][i] = res]
  /\ UNCHANGED <<mailboxVars, lockHolder, pc, exc, result, outcome, response,
                 con, imap, releases, acquired, fetched, todo, msg, seen,
                 calls, failedAt>>
  /\ UNCHANGED storeVars
  /\ UNCHANGED conOpens
  /\ UNCHANGED <<folder, names, attKeys, overwrites>>
  /\ UNCHANGED keyVars

\* the attachment promises not joined: the handler goes on without awaiting them
JoinResolveNoWait(r) ==
  /\ pc[r] = "join"
  /\ assetsOk' = [assetsOk EXCEPT ![r] = @ \cup {msg[r]}]
  /\ pc' = [pc EXCEPT ![r] = "save"]
  /\ UNCHANGED <<mailboxVars, lockHolder, exc, result, outcome, response, con,
                 imap, releases, acquired, fetched, puts, saveCalls, savedOk,
                 saveCount, calls, failedAt>>
  /\ UNCHANGED loopVars
  /\ UNCHANGED conOpens
  /\ UNCHANGED <<folder, names, attKeys, overwrites>>
  /\ UNCHANGED keyVars

\* lines 216, 231-235: Promise.all resolves once every upload has resolved
JoinResolve(r) ==
  /\ pc[r] = "join"
  /\ \A i \in DOMAIN uploads[r] : uploads[r][i] = "ok"
  /\ assetsOk' = [assetsOk EXCEPT ![r] = @ \cup {msg[r]}]
  /\ pc' = [pc EXCEPT ![r] = "save"]
  /\ UNCHANGED <<mailboxVars, lockHolder, exc, result, outcome, response, con,
                 imap, releases, acquired, fetched, puts, saveCalls, savedOk,
                 saveCount, calls, failedAt>>
  /\ UNCHANGED loopVars
  /\ UNCHANGED conOpens
  /\ UNCHANGED <<folder, names, attKeys, overwrites>>
  /\ UNCHANGED keyVars

\* line 216: Promise.all rejects as soon as one upload has rejected
JoinReject(r) ==
  /\ pc[r] = "join"
  /\ \E i \in DOMAIN uploads[r] : uploads[r][i] = "err"
  /\ Throw(r, "upload")
  /\ UNCHANGED <<mailboxVars, lockHolder, result, outcome, response, con, imap,
                 releases, acquired, fetched, calls>>
  /\ UNCHANGED <<loopVars, storeVars>>
  /\ UNCHANGED conOpens
  /\ UNCHANGED <<folder, names, attKeys, overwrites>>
  /\ UNCHANGED keyVars

\* save_email called again after a rejection
SaveEmailRetry(r) ==
  /\ pc[r] = "save"
  /\ saveCalls[r][msg[r]] < 2
  /\ saveCalls' = [saveCalls EXCEPT ![r][msg[r]] = @ + 1]
  /\ \/ /\ result' = [result EXCEPT ![r] = ResultSaved]
        /\ savedOk' = [savedOk EXCEPT ![r] = @ \cup {msg[r]}]
        /\ saveCount' = [saveCount EXCEPT ![msg[r]] = @ + 1]
        /\ seen' = [seen EXCEPT ![r] = @ \cup {msg[r]}]
        /\ pc' = [pc EXCEPT ![r] = "next"]
        /\ UNCHANGED failedAt
     \/ /\ failedAt' = [failedAt EXCEPT ![r] = "persist"]
        /\ UNCHANGED <<result, savedOk, saveCount, seen, pc>>
  /\ UNCHANGED <<mailboxVars, lockHolder, exc, outcome, response, con, imap,
                 releases, acquired, fetched, todo, msg, uploads, puts,
                 assetsOk, calls>>
  /\ UNCHANGED conOpens
  /\ UNCHANGED <<folder, names, attKeys, overwrites>>
  /\ UNCHANGED keyVars

\* lines 237-239 and 314-327: save_email; its rejection is logged by the second
\* argument of then(); seen.push(message.uid) follows in either case
SaveEmail(r) ==
  /\ pc[r] = "save"
  /\ saveCalls' = [saveCalls EXCEPT ![r][msg[r]] = @ + 1]
  /\ \/ /\ result' = [result EXCEPT ![r] = ResultSaved]
        /\ savedOk' = [savedOk EXCEPT ![r] = @ \cup {msg[r]}]
        /\ saveCount' = [saveCount EXCEPT ![msg[r]] = @ + 1]
        /\ UNCHANGED failedAt
     \/ /\ failedAt' = [failedAt EXCEPT ![r] = "persist"]
        /\ UNCHANGED <<result, savedOk, saveCount>>
  /\ seen' = [seen EXCEPT ![r] = @ \cup {msg[r]}]
  /\ pc' = [pc EXCEPT ![r] = "next"]
  /\ UNCHANGED <<mailboxVars, lockHolder, exc, outcome, response, con, imap,
                 releases, acquired, fetched, todo, msg, uploads, puts,
                 assetsOk, calls>>
  /\ UNCHANGED conOpens
  /\ UNCHANGED <<folder, names, attKeys, overwrites>>
  /\ UNCHANGED keyVars

\* the finalizer addressing every message of the mailbox ('1:*') instead of s
FinalizerTargetAll(r) == inbox

\* line 247: s = seen.join(), the UID set of the three finalizer calls
FinalizerTarget(r) == seen[r]

\* con.end() and con.destroy() placed before the finalizer calls
FinalizerStartEndsCon(r) ==
  /\ pc[r] = "finalize"
  /\ pc' = [pc EXCEPT ![r] = IF seen[r] # {} THEN "flagsAdd" ELSE "end"]
  /\ con' = [con EXCEPT ![r] = "ended"]
  /\ UNCHANGED <<mailboxVars, lockHolder, exc, result, outcome, response,
                 imap, releases, acquired, fetched, calls, failedAt>>
  /\ UNCHANGED <<loopVars, storeVars>>
  /\ UNCHANGED conOpens
  /\ UNCHANGED <<folder, names, attKeys, overwrites>>
  /\ UNCHANGED keyVars

\* the finalizer without its messageFlagsAdd call
FinalizerStartSkipFlag(r) ==
  /\ pc[r] = "finalize"
  /\ pc' = [pc EXCEPT ![r] = IF seen[r] # {} THEN "move" ELSE "end"]
  /\ UNCHANGED <<mailboxVars, lockHolder, exc, result, outcome, response, con,
                 imap, releases, acquired, fetched, calls, failedAt>>
  /\ UNCHANGED <<loopVars, storeVars>>
  /\ UNCHANGED conOpens
  /\ UNCHANGED <<folder, names, attKeys, overwrites>>
  /\ UNCHANGED keyVars

\* line 246: if (seen.length > 0)
FinalizerStart(r) ==
  /\ pc[r] = "finalize"
  /\ pc' = [pc EXCEPT ![r] = IF seen[r] # {} THEN "flagsAdd" ELSE "end"]
  /\ UNCHANGED <<mailboxVars, lockHolder, exc, result, outcome, response, con,
                 imap, releases, acquired, fetched, calls, failedAt>>
  /\ UNCHANGED <<loopVars, storeVars>>
  /\ UNCHANGED conOpens
  /\ UNCHANGED <<folder, names, attKeys, overwrites>>
  /\ UNCHANGED keyVars

\* line 248: client.messageFlagsAdd(s, ['\\Seen'], {uid: true})
MessageFlagsAdd(r) ==
  /\ pc[r] = "flagsAdd"
  /\ calls' = [calls EXCEPT ![r] = Append(@, [op |-> "flagsAdd", uids |-> FinalizerTarget(r)])]
  /\ \/ /\ flagged' = flagged \cup (FinalizerTarget(r) \cap inbox)
        /\ pc' = [pc EXCEPT ![r] = "move"]
        /\ UNCHANGED <<exc, failedAt>>
     \/ /\ Throw(r, "flagsAdd")
        /\ UNCHANGED flagged
  /\ UNCHANGED <<clock, inbox, trash, delivered, natt, lockHolder, result, outcome,
                 response, con, imap, releases, acquired, fetched>>
  /\ UNCHANGED <<loopVars, storeVars>>
  /\ UNCHANGED conOpens
  /\ UNCHANGED <<folder, names, attKeys, overwrites>>
  /\ UNCHANGED keyVars

\* line 249: client.messageMove(s, 'Trash', {uid: true})
MessageMove(r) ==
  /\ pc[r] = "move"
  /\ calls' = [calls EXCEPT ![r] = Append(@, [op |-> "move", uids |-> FinalizerTarget(r)])]
  /\ \/ /\ trash' = trash \cup (FinalizerTarget(r) \cap inbox)
        /\ inbox' = inbox \ FinalizerTarget(r)
        /\ natt' = [u \in UIDs |-> IF u \in FinalizerTarget(r) THEN 0 ELSE natt[u]]
        /\ pc' = [pc EXCEPT ![r] = "delete"]
        /\ UNCHANGED <<exc, failedAt>>
     \/ /\ Throw(r, "move")
        /\ UNCHANGED <<inbox, trash, natt>>
  /\ UNCHANGED <<clock, flagged, delivered, lockHolder, result, outcome,
                 response, con, imap, releases, acquired, fetched>>
  /\ UNCHANGED <<loopVars, storeVars>>
  /\ UNCHANGED conOpens
  /\ UNCHANGED <<folder, names, attKeys, overwrites>>
  /\ UNCHANGED keyVars

\* line 250: client.messageDelete(s, {uid: true})
MessageDelete(r) ==
  /\ pc[r] = "delete"
  /\ calls' = [calls EXCEPT ![r] = Append(@, [op |-> "delete", uids |-> FinalizerTarget(r)])]
  /\ \/ /\ inbox' = inbox \ FinalizerTarget(r)
        /\ natt' = [u \in UIDs |-> IF u \in FinalizerTarget(r) THEN 0 ELSE natt[u]]
        /\ pc' = [pc EXCEPT ![r] = "end"]
        /\ UNCHANGED <<exc, failedAt>>
     \/ /\ Throw(r, "delete")
        /\ UNCHANGED <<inbox, natt>>
  /\ UNCHANGED <<clock, trash, flagged, delivered, lockHolder, result, outcome,
                 response, con, imap, releases, acquired, fetched>>
  /\ UNCHANGED <<loopVars, storeVars>>
  /\ UNCHANGED conOpens
  /\ UNCHANGED <<folder, names, attKeys, overwrites>>
  /\ UNCHANGED keyVars

\* line 254 missing: `result` keeps what the last save_email left in it
EndConnectionKeepsResult(r) ==
  /\ pc[r] = "end"
  /\ con' = [con EXCEPT ![r] = "ended"]
  /\ pc' = [pc EXCEPT ![r] = "finally"]
  /\ UNCHANGED <<mailboxVars, lockHolder, exc, result, outcome, response, imap,
                 releases, acquired, fetched, calls, failedAt>>
  /\ UNCHANGED <<loopVars, storeVars>>
  /\ UNCHANGED conOpens
  /\ UNCHANGED <<folder, names, attKeys, overwrites>>
  /\ UNCHANGED keyVars

\* lines 254-258: result = {success:true}; con.end(); con.destroy()
EndConnection(r) ==
  /\ pc[r] = "end"
  /\ result' = [result EXCEPT ![r] = ResultSuccess]
  /\ con' = [con EXCEPT ![r] = "ended"]
  /\ pc' = [pc EXCEPT ![r] = "finally"]
  /\ UNCHANGED <<mailboxVars, lockHolder, exc, outcome, response, imap,
                 releases, acquired, fetched, calls, failedAt>>
  /\ UNCHANGED <<loopVars, storeVars>>
  /\ UNCHANGED conOpens
  /\ UNCHANGED <<folder, names, attKeys, overwrites>>
  /\ UNCHANGED keyVars

\* lock.release() placed after the try statement instead of in a finally clause
FinallyReleaseAfterTry(r) ==
  /\ pc[r] = "finally"
  /\ IF exc[r]
     THEN /\ pc' = [pc EXCEPT ![r] = "done"]
          /\ outcome' = [outcome EXCEPT ![r] = "threw"]
          /\ UNCHANGED <<lockHolder, releases>>
     ELSE /\ pc' = [pc EXCEPT ![r] = "logout"]
          /\ lockHolder' = IF lockHolder = r THEN NoRun ELSE lockHolder
          /\ releases' = [releases EXCEPT ![r] = @ + 1]
          /\ UNCHANGED outcome
  /\ UNCHANGED <<mailboxVars, exc, result, response, con, imap, acquired,
                 fetched, calls, failedAt>>
  /\ UNCHANGED <<loopVars, storeVars>>
  /\ UNCHANGED conOpens
  /\ UNCHANGED <<folder, names, attKeys, overwrites>>
  /\ UNCHANGED keyVars

\* lines 268-272: finally { lock.release() }; a pending exception then leaves
\* handler, as the try statement has no catch clause
Finally(r) ==
  /\ pc[r] = "finally"
  /\ lockHolder' = IF lockHolder = r THEN NoRun ELSE lockHolder
  /\ releases' = [releases EXCEPT ![r] = @ + 1]
  /\ IF exc[r]
     THEN /\ pc' = [pc EXCEPT ![r] = "done"]
          /\ outcome' = [outcome EXCEPT ![r] = "threw"]
     ELSE /\ pc' = [pc EXCEPT ![r] = "logout"]
          /\ UNCHANGED outcome
  /\ UNCHANGED <<mailboxVars, exc, result, response, con, imap, acquired,
                 fetched, calls, failedAt>>
  /\ UNCHANGED <<loopVars, storeVars>>
  /\ UNCHANGED conOpens
  /\ UNCHANGED <<folder, names, attKeys, overwrites>>
  /\ UNCHANGED keyVars

\* lines 276-285: client.logout(), then the response object is returned
Logout(r) ==
  /\ pc[r] = "logout"
  /\ \/ /\ imap' = [imap EXCEPT ![r] = "loggedOut"]
        /\ response' = [response EXCEPT ![r] = [statusCode |-> 200, body |-> result[r]]]
        /\ outcome' = [outcome EXCEPT ![r] = "returned"]
        /\ pc' = [pc EXCEPT ![r] = "done"]
        /\ UNCHANGED failedAt
     \/ /\ Reject(r, "logout")
        /\ UNCHANGED <<imap, response>>
  /\ UNCHANGED <<mailboxVars, lockHolder, exc, result, con, releases, acquired,
                 fetched, calls>>
  /\ UNCHANGED <<loopVars, storeVars>>
  /\ UNCHANGED conOpens
  /\ UNCHANGED <<folder, names, attKeys, overwrites>>
  /\ UNCHANGED keyVars

\* line 286: the invocation is over and its locals are gone; uploads whose
\* callbacks have not run yet stay in flight
Exit(r) ==
  /\ pc[r] = "done"
  /\ pc' = [pc EXCEPT ![r] = "exited"]
  /\ exc' = [exc EXCEPT ![r] = FALSE]
  /\ result' = [result EXCEPT ![r] = ResultInitial]
  /\ outcome' = [outcome EXCEPT ![r] = "running"]
  /\ response' = [response EXCEPT ![r] = NoResponse]
  /\ todo' = [todo EXCEPT ![r] = <<>>]
  /\ msg' = [msg EXCEPT ![r] = NoUid]
  /\ seen' = [seen EXCEPT ![r] = {}]
  /\ con' = [con EXCEPT ![r] = "none"]
  /\ imap' = [imap EXCEPT ![r] = "none"]
  /\ releases' = [releases EXCEPT ![r] = 0]
  /\ acquired' = [acquired EXCEPT ![r] = FALSE]
  /\ fetched' = [fetched EXCEPT ![r] = FALSE]
  /\ puts' = [puts EXCEPT ![r] = 0]
  /\ saveCalls' = [saveCalls EXCEPT ![r] = [u \in UIDs |-> 0]]
  /\ savedOk' = [savedOk EXCEPT ![r] = {}]
  /\ assetsOk' = [assetsOk EXCEPT ![r] = {}]
  /\ calls' = [calls EXCEPT ![r] = <<>>]
  /\ failedAt' = [failedAt EXCEPT ![r] = "none"]
  /\ conOpens' = [conOpens EXCEPT ![r] = 0]
  /\ folder' = [folder EXCEPT ![r] = <<>>]
  /\ names' = [names EXCEPT ![r] = <<>>]
  /\ attKeys' = [attKeys EXCEPT ![r] = {}]
  /\ overwrites' = [overwrites EXCEPT ![r] = FALSE]
  /\ key' = [key EXCEPT ![r] = <<>>]
  /\ putKeys' = [putKeys EXCEPT ![r] = <<>>]
  /\ emlKey' = [emlKey EXCEPT ![r] = <<>>]
  /\ UNCHANGED <<mailboxVars, lockHolder, uploads, saveCount>>

\* a millisecond passes
Tick ==
  /\ clock < ClockEnd
  /\ clock' = clock + 1
  /\ UNCHANGED <<inbox, trash, flagged, delivered, natt, lockHolder, pc, exc,
                 result, outcome, response, con, imap, releases, acquired,
                 fetched, calls, failedAt>>
  /\ UNCHANGED <<loopVars, storeVars>>
  /\ UNCHANGED <<conOpens, folder, names, attKeys, overwrites>>
  /\ UNCHANGED keyVars

\* one invocation of handler
Run(r) ==
  \/ GetImapConfig(r)
  \/ ImapConnect(r)
  \/ GetMailboxLock(r)
  \/ Status(r)
  \/ GetMySqlConnection(r)
  \/ DbConnect(r)
  \/ CheckBucket(r)
  \/ FetchStart(r)
  \/ FetchNext(r)
  \/ ParseOuter(r)
  \/ ParseInner(r)
  \/ PutEml(r)
  \/ FanOut(r)
  \/ \E i \in 1..MaxAtt : UploadDone(r, i)
  \/ JoinResolve(r)
  \/ JoinReject(r)
  \/ SaveEmail(r)
  \/ FinalizerStart(r)
  \/ MessageFlagsAdd(r)
  \/ MessageMove(r)
  \/ MessageDelete(r)
  \/ EndConnection(r)
  \/ Finally(r)
  \/ Logout(r)
  \/ Exit(r)

\* several invocations against the same mailbox
Next ==
  \/ \E u \in UIDs : Deliver(u)
  \/ \E r \in Runs : Run(r)

Spec == Init /\ [][Next]_vars

\* a single invocation, with mail still arriving
NextSingle ==
  \/ \E u \in UIDs : Deliver(u)
  \/ Run(1)

SpecSingle == Init /\ [][NextSingle]_vars

\* a single invocation while the clock runs
NextClock ==
  \/ Tick
  \/ Run(1)

SpecClock == Init /\ [][NextClock]_vars

\* ---- properties ----

\* the three finalizer calls, in the order of lines 248-250
FinalizerCalls(S) ==
  << [op |-> "flagsAdd", uids |-> S], [op |-> "move", uids |-> S],
     [op |-> "delete", uids |-> S] >>

\* the stages of a run in which a mailbox, storage or data-store call is made
LockedStages ==
  {"status", "getMySqlConnection", "dbConnect", "bucket", "fetch", "next",
   "parseOuter", "parseInner", "putEml", "fanOut", "join", "save", "finalize",
   "flagsAdd", "move", "delete", "end"}

\* the stages from the first fetch to the last finalizer call
FetchToDelete ==
  {"fetch", "next", "parseOuter", "parseInner", "putEml", "fanOut", "join",
   "save", "finalize", "flagsAdd", "move", "delete"}

\* C1: a UID is in `seen`, and so is passed to the finalizer calls, only if its
\* .eml upload, all its attachment uploads and its sp_save_inbound_email call
\* succeeded; a message whose persist call failed is not in the set.
C1_SeenOnlyAfterAllWritten ==
  \A r \in Runs :
    /\ seen[r] \subseteq (assetsOk[r] \cap savedOk[r])
    /\ \A i \in DOMAIN calls[r] : calls[r][i].uids \subseteq savedOk[r]

\* C2: every messageFlagsAdd, messageMove and messageDelete call of a run is
\* passed exactly the run's processed set, and while the set is empty no such
\* call has been issued.
C2_FinalizerTargetsProcessedSet ==
  \A r \in Runs :
    /\ \A i \in DOMAIN calls[r] : calls[r][i].uids = seen[r]
    /\ seen[r] = {} => calls[r] = <<>>

\* a run has issued all three calls while a message outside its set is in INBOX
C2_Witness ==
  \E r \in Runs :
    /\ Len(calls[r]) = 3
    /\ seen[r] # {}
    /\ inbox \ seen[r] # {}

\* C3: after a decode or blob-storage failure at some message the run has
\* processed no later message and, by the time it ends, has issued flag, move
\* and delete for the UIDs completed before the failure.
C3_FinalizerRunsAfterStageFailure ==
  \A r \in Runs :
    (pc[r] = "done" /\ failedAt[r] \in {"parse", "malformed", "upload"}) =>
      /\ msg[r] \notin seen[r]
      /\ seen[r] # {} => calls[r] = FinalizerCalls(seen[r])

\* C4: over all runs on the mailbox, no message is persisted successfully more
\* than once.
C4_PersistedAtMostOnce ==
  \A u \in UIDs : saveCount[u] <= 1

\* C5: a run releases the INBOX lock at most once, only after acquiring it, and
\* a run that acquired the lock has released it exactly once when it ends.
C5_LockReleasedExactlyOnce ==
  \A r \in Runs :
    /\ releases[r] <= 1
    /\ ~acquired[r] => releases[r] = 0
    /\ (pc[r] \in {"logout", "done"} /\ acquired[r]) =>
         (releases[r] = 1 /\ lockHolder # r)

\* a run that ended with an exception from messageDelete has released the lock
C5_Witness ==
  \E r \in Runs :
    /\ pc[r] = "done"
    /\ outcome[r] = "threw"
    /\ failedAt[r] = "delete"
    /\ releases[r] = 1

\* C6: every status, fetch, blob write, persist and finalizer call of a run is
\* made, and every blob write completes, while the run holds the INBOX lock;
\* at most one run is between its first fetch and its last finalizer call.
C6_OperationsUnderLock ==
  /\ \A r \in Runs : pc[r] \in LockedStages => lockHolder = r
  /\ \A r \in Runs :
       (\E i \in DOMAIN uploads[r] : uploads[r][i] = "inflight") => lockHolder = r
  /\ Cardinality({r \in Runs : pc[r] \in FetchToDelete}) <= 1

\* C7: after a rejected data-store connect the run issues no fetch, no blob
\* write, no persist call and no finalizer call, its result is the connection
\* failure, it releases the lock, and what it returns is that result.
C7_DbUnreachable ==
  \A r \in Runs :
    failedAt[r] = "dbConnect" =>
      /\ ~fetched[r]
      /\ puts[r] = 0
      /\ \A u \in UIDs : saveCalls[r][u] = 0
      /\ calls[r] = <<>>
      /\ result[r] = ResultDbError
      /\ SuccessField(result[r]) = "false"
      /\ ErrorField(result[r]) = "Could not connect to MySQL database"
      /\ pc[r] \in {"finally", "logout", "done"}
      /\ pc[r] \in {"logout", "done"} => (releases[r] = 1 /\ lockHolder # r)
      /\ pc[r] = "done" =>
           /\ outcome[r] = "returned"
           /\ response[r] = [statusCode |-> 200, body |-> ResultDbError]

\* a run has returned the connection failure
C7_Witness ==
  \E r \in Runs :
    /\ pc[r] = "done"
    /\ failedAt[r] = "dbConnect"
    /\ outcome[r] = "returned"
    /\ inbox # {}

C9_NeverThrowsAfterLock ==
  \A r \in Runs : acquired[r] => outcome[r] # "threw"

\* C10: when simpleParser rejects, handler returns statusCode 500 with the body
\* "Failed to process email".
C10_ParseFailureReturns500 ==
  \A r \in Runs :
    (pc[r] = "done" /\ failedAt[r] = "parse") =>
      /\ outcome[r] = "returned"
      /\ response[r] = [statusCode |-> 500, body |-> "Failed to process email"]

\* C11: a run whose getMailboxLock fails ends by returning a failure result,
\* not by propagating the exception, and has made no fetch, blob write, persist
\* call or mailbox mutation.
C11_LockFailureReturnsResult ==
  \A r \in Runs :
    (pc[r] = "done" /\ failedAt[r] = "lock") =>
      /\ outcome[r] = "returned"
      /\ SuccessField(response[r].body) = "false"
      /\ ~fetched[r]
      /\ puts[r] = 0
      /\ \A u \in UIDs : saveCalls[r][u] = 0
      /\ calls[r] = <<>>

\* C12: when EMAIL_BUCKET is found missing, no mail-server connect, lock
\* acquisition, status check or fetch has been issued by the run.
C12_MissingBucketBeforeMailbox ==
  \A r \in Runs :
    failedAt[r] = "bucket" =>
      /\ imap[r] = "none"
      /\ ~acquired[r]
      /\ ~fetched[r]

\* the stages of the fetch loop
FetchLoopStages ==
  {"fetch", "next", "parseOuter", "parseInner", "putEml", "fanOut", "join", "save"}

\* C13: the mailbox calls of a run are, in this order, flagsAdd, move and
\* delete, all with the processed set; none is issued while the fetch loop is
\* running, each is issued only after the one before it completed, and all
\* three have been issued once the finalizer has gone through.
C13_FinalizerOrder ==
  \A r \in Runs :
    /\ Len(calls[r]) <= 3
    /\ \A i \in DOMAIN calls[r] : calls[r][i] = FinalizerCalls(seen[r])[i]
    /\ pc[r] \in FetchLoopStages \cup {"finalize", "flagsAdd"} => calls[r] = <<>>
    /\ calls[r] # <<>> => todo[r] = <<>>
    /\ pc[r] = "move" => Len(calls[r]) = 1
    /\ pc[r] = "delete" => Len(calls[r]) = 2
    /\ (pc[r] = "end" /\ seen[r] # {}) => calls[r] = FinalizerCalls(seen[r])

\* a run has issued the three calls for a non-empty set
C13_Witness ==
  \E r \in Runs :
    /\ pc[r] = "end"
    /\ seen[r] # {}
    /\ Len(calls[r]) = 3
    /\ calls[r][1].op = "flagsAdd"
    /\ calls[r][3].op = "delete"

\* C14: a run calls sp_save_inbound_email at most once for each message, also
\* after the call failed.
C14_OnePersistCallPerMessage ==
  \A r \in Runs : \A u \in UIDs : saveCalls[r][u] <= 1

\* a run went on after a failed persist call without calling again
C14_Witness ==
  \E r \in Runs : \E u \in UIDs :
    /\ pc[r] = "done"
    /\ u \in seen[r] \ savedOk[r]
    /\ saveCalls[r][u] = 1

\* C15: the filenames generated for the attachments of one message are pairwise
\* distinct, whatever the clock reads while the uploads are started and also
\* when the attachments have the same original name.
C15_AttachmentNamesDistinct ==
  \A r \in Runs : \A i, j \in DOMAIN names[r] :
    i # j => names[r][i] # names[r][j]

\* two attachments with the same original name were named at the same clock
\* reading
C15_Witness ==
  \E r \in Runs :
    /\ Len(names[r]) >= 2
    /\ OriginalName(msg[r], 1) = OriginalName(msg[r], 2)
    /\ names[r][1] = FileName(clock, 0, OriginalName(msg[r], 1))
    /\ names[r][2] = FileName(clock, 1, OriginalName(msg[r], 2))

\* C16: no two attachment uploads of a run use the same key, also for
\* attachments of different messages to the same recipient that are named in
\* the same millisecond.
C16_NoKeyWrittenTwice ==
  \A r \in Runs : ~overwrites[r]

\* C17: sp_save_inbound_email is called for a message only when its .eml upload
\* and every one of its attachment uploads has completed successfully; a
\* message with a failed upload gets no persist call.
C17_PersistAfterAllUploads ==
  \A r \in Runs :
    /\ pc[r] = "save" => \A i \in DOMAIN uploads[r] : uploads[r][i] = "ok"
    /\ \A u \in UIDs : saveCalls[r][u] > 0 => u \in assetsOk[r]
    /\ (msg[r] \in UIDs /\ saveCalls[r][msg[r]] > 0) =>
         \A i \in DOMAIN uploads[r] : uploads[r][i] = "ok"
    /\ (msg[r] \in UIDs /\ \E i \in DOMAIN uploads[r] : uploads[r][i] = "err") =>
         saveCalls[r][msg[r]] = 0

\* a message with two attachments has been persisted
C17_Witness ==
  \E r \in Runs :
    /\ msg[r] \in UIDs
    /\ saveCalls[r][msg[r]] = 1
    /\ Len(uploads[r]) >= 2

\* C18 as stated: a returned result is either success true with the count of
\* processed messages, or success false with an error reason.
C18_ResultHasCountOrError ==
  \A r \in Runs :
    outcome[r] = "returned" =>
      \/ /\ SuccessField(response[r].body) = "true"
         /\ CountField(response[r].body) # "absent"
      \/ /\ SuccessField(response[r].body) = "false"
         /\ ErrorField(response[r].body) # "absent"

\* C18 amended: a returned result is either {success:true}, without a count,
\* or success false with an error reason; {failed:true} and the result of the
\* persist call are never returned.
C18_ResultShapes ==
  \A r \in Runs :
    outcome[r] = "returned" =>
      /\ response[r].statusCode = 200
      /\ response[r].body \notin {ResultInitial, ResultSaved}
      /\ \/ /\ response[r].body = ResultSuccess
            /\ SuccessField(response[r].body) = "true"
            /\ CountField(response[r].body) = "absent"
         \/ /\ SuccessField(response[r].body) = "false"
            /\ ErrorField(response[r].body) # "absent"

\* a run that saved a message has returned {success:true}
C18_Witness ==
  \E r \in Runs :
    /\ outcome[r] = "returned"
    /\ savedOk[r] # {}
    /\ response[r].body = ResultSuccess

\* C19: connect(con) is called at most once in a run, and the connection is
\* ended only after the finalizer calls of the run have completed.
C19_ConnectionLifetime ==
  \A r \in Runs :
    /\ conOpens[r] <= 1
    /\ con[r] = "ended" =>
         /\ pc[r] \in {"finally", "logout", "done"}
         /\ ~exc[r]
         /\ seen[r] # {} => calls[r] = FinalizerCalls(seen[r])

\* the connection has been ended after three finalizer calls
C19_Witness ==
  \E r \in Runs :
    /\ con[r] = "ended"
    /\ conOpens[r] = 1
    /\ Len(calls[r]) = 3

\* C20: a run that connected to the mail server and created a data-store
\* connection has ended that connection and logged out when it ends.
C20_ResourcesReleased ==
  \A r \in Runs :
    (pc[r] = "done" /\ imap[r] # "none" /\ con[r] # "none") =>
      /\ con[r] = "ended"
      /\ imap[r] = "loggedOut"

\* lines 224-229: the key folder/filename that the manifest entry of
\* attachment i of the current message records
ManifestKey(r, i) == Key(folder[r], names[r][i])

\* lines 189-194: the key folder/filename that the manifest entry of the .eml
\* of the current message records
ManifestEmlKey(r) == Key(folder[r], EmlName(msg[r]))

\* the positions of handler between the .eml upload and the persist call
AfterEmlStages == {"fanOut", "join", "save"}

\* C21: every attachment of a message is uploaded under the key that its own
\* manifest entry records and the .eml under folder/<eml filename>, although
\* all upload tasks assign the one variable `key`, in whatever order the
\* uploads complete.
C21_UploadKeyMatchesManifest ==
  \A r \in Runs :
    /\ Len(putKeys[r]) = Len(names[r])
    /\ \A i \in DOMAIN putKeys[r] : putKeys[r][i] = ManifestKey(r, i)
    /\ pc[r] \in AfterEmlStages => emlKey[r] = ManifestEmlKey(r)

\* two uploads of one message were started, `key` holds the key of the second
\* and differs from that of the first and of the .eml, and the second upload
\* completed while the first is still in flight
C21_Witness ==
  \E r \in Runs :
    /\ pc[r] = "join"
    /\ Len(putKeys[r]) >= 2
    /\ key[r] = putKeys[r][2]
    /\ key[r] # putKeys[r][1]
    /\ key[r] # emlKey[r]
    /\ uploads[r][1] = "inflight"
    /\ uploads[r][2] = "ok"

====
